---- MODULE Spec2Model ----
(***************************************************************************)
(* A model of the branching-simulation engine of src/src/state.rs.         *)
(*                                                                         *)
(* A Node pairs a State with Branches (Decision, Chance, Pending, End).    *)
(* The continuations the engine stores are boxed closures; here every      *)
(* closure is a record naming the closure expression of the source and its *)
(* captured values, and Apply / Call2 run a closure on its arguments.      *)
(* Running a closure may call further closures, so every evaluating        *)
(* operator takes the invocation log so far and returns a record           *)
(* [node, log]: the log is the sequence of calls made to caller-supplied   *)
(* steps and callbacks (the instrumentation a test of the engine would     *)
(* put in its closures).                                                   *)
(***************************************************************************)
EXTENDS Integers, Sequences, FiniteSets, TLC

VARIABLES pc, held, builder, node, log, last, nthen

vars == <<pc, held, builder, node, log, last, nthen>>

(***************************************************************************)
(* Bounds of the model.                                                    *)
(***************************************************************************)
\* then compositions a run applies to its node
MaxThen == 2
\* entries a builder accumulates
MaxChoices == 3
\* depth to which a node's resolution tree is unfolded when two nodes are compared
MaxDepth == 4

\* resolutions a driver makes in one game
MaxResolves == 6

(***************************************************************************)
(* single.rs: Player::values()                                             *)
(***************************************************************************)
Player_values == <<"Player1", "Player2">>

PlayerNo(p) == IF p = "Player1" THEN 1 ELSE 2

(***************************************************************************)
(* Node constructors, state.rs 250-262.                                    *)
(***************************************************************************)
end(state) == [state |-> state, branches |-> [kind |-> "End"]]

pending(state) == [state |-> state, branches |-> [kind |-> "Pending"]]

(***************************************************************************)
(* The closures of state.rs, as records of their captures.                 *)
(***************************************************************************)
\* Box::new(move |s| cont(s).then(f)), state.rs 287 and 306
then_closure(cont, f) == [k |-> "then_closure", cont |-> cont, f |-> f]

\* Box::new(move |s| f(s, c)), state.rs 92 and 191
build_closure(f, c) == [k |-> "build_closure", f |-> f, c |-> c]

\* move |state| f(state, item), state.rs 22
fold_closure(f, item) == [k |-> "fold_closure", f |-> f, item |-> item]

\* |s| f(s).then(g): the step the associativity law composes with
seq_closure(f, g) == [k |-> "seq_closure", f |-> f, g |-> g]

(***************************************************************************)
(* Caller-supplied steps (FnOnce(S) -> Node<S>) and callbacks              *)
(* (FnOnce(S, T) -> Node<S>).  A State of the engine's tests is the        *)
(* sequence of marks the steps have written into it, in order.             *)
(***************************************************************************)
\* an overridden EventHandler hook: writes its mark, returns Pending or End
Hook(m, out) == [k |-> "hook", mark |-> m, out |-> out]

\* a default EventHandler hook, state.rs 224-234
DefaultHook(which) == [k |-> "default_hook", which |-> which]

\* a step that writes its mark and asks `player` to pick one of n items
Ask(m, player, n, h) == [k |-> "ask", mark |-> m, player |-> player, n |-> n, h |-> h]

\* a step that writes its mark and builds a Chance over the payloads 0..Len(ws)-1
Roll(m, ws, h) == [k |-> "roll", mark |-> m, ws |-> ws, h |-> h]

\* a callback that writes 10 + payload and goes on with nexts[payload + 1]
Route(nexts) == [k |-> "route", nexts |-> nexts]

\* a fold step: a Decision of n choices for the item (a player)
AskItem(n) == [k |-> "ask_item", n |-> n]

\* the callback of AskItem's Decision: writes 100 * player + payload, returns Pending
SetFor(player) == [k |-> "set_for", player |-> player]

\* a fold step like AskItem whose Decision ends the run at its second choice
AskItemEnd(n) == [k |-> "ask_item_end", n |-> n]

\* the callback of AskItemEnd's Decision: writes 100 * player + payload, returns
\* End for payload 1 and Pending otherwise
SetOrEnd(player) == [k |-> "set_or_end", player |-> player]

(***************************************************************************)
(* Textual rendering (ToString / Display) of the items and payloads the    *)
(* builders label: item i renders as the i-th name.                        *)
(***************************************************************************)
ItemNames == <<"Abra", "Bulbasaur", "Charmander", "Ditto", "Eevee", "Flareon", "Gastly">>

to_string(t) == IF t \in 0..(Len(ItemNames) - 1) THEN ItemNames[t + 1] ELSE "?"

(***************************************************************************)
(* DecisionBuilder, state.rs 33-144.  choices is a sequence of             *)
(* <<label, payload>>.                                                     *)
(***************************************************************************)
DecisionBuilder_new(name, player) == [name |-> name, player |-> player, choices |-> <<>>]

named_choice(self, name, choice) == [self EXCEPT !.choices = Append(@, <<name, choice>>)]

named_choices(self, choices) == [self EXCEPT !.choices = @ \o choices]

choice(self, c) == named_choice(self, to_string(c), c)

choices(self, cs) == named_choices(self, [i \in 1..Len(cs) |-> <<to_string(cs[i]), cs[i]>>])

\* .map(|c| c.to_string()).enumerate().map(|(i, n)| (n, i)): payloads count from 0
indexed_choices(self, items) ==
    named_choices(self, [i \in 1..Len(items) |-> <<to_string(items[i]), i - 1>>])

\* payloads are the booleans true, false: written 1, 0
yn_choices(self) == named_choices(self, <<<<"Yes", 1>>, <<"No", 0>>>>)

\* every continuation closes over the payload accumulated last
DecisionBuilder_build_last_payload(self, state, f) ==
    [state |-> state,
     branches |-> [kind |-> "Decision",
                   name |-> self.name,
                   player |-> self.player,
                   choices |-> [i \in 1..Len(self.choices) |->
                       [name |-> self.choices[i][1],
                        continuation |->
                            build_closure(f, self.choices[Len(self.choices)][2])]]]]

DecisionBuilder_build(self, state, f) ==
    [state |-> state,
     branches |-> [kind |-> "Decision",
                   name |-> self.name,
                   player |-> self.player,
                   choices |-> [i \in 1..Len(self.choices) |->
                       [name |-> self.choices[i][1],
                        continuation |-> build_closure(f, self.choices[i][2])]]]]

(***************************************************************************)
(* ChanceBuilder, state.rs 146-218.  possibilities is a sequence of        *)
(* <<label, weight, payload>>; a weight is kept as the number the caller   *)
(* gave (in thousandths), the engine does no arithmetic on it.             *)
(***************************************************************************)
ChanceBuilder_new(name) == [name |-> name, possibilities |-> <<>>]

named_possibility(self, name, weight, p) ==
    [self EXCEPT !.possibilities = Append(@, <<name, weight, p>>)]

named_possibilities(self, ps) == [self EXCEPT !.possibilities = @ \o ps]

possibility(self, weight, p) == named_possibility(self, to_string(p), weight, p)

\* possibilities is a sequence of <<weight, payload>>
possibilities(self, ps) ==
    named_possibilities(self, [i \in 1..Len(ps) |-> <<to_string(ps[i][2]), ps[i][1], ps[i][2]>>])

RECURSIVE WeightSum(_)

WeightSum(ps) == IF ps = <<>> THEN 0 ELSE ps[1][2] + WeightSum(Tail(ps))

\* the weights scaled to add up to 1 (1000 thousandths)
ChanceBuilder_build_normalized(self, state, f) ==
    [state |-> state,
     branches |-> [kind |-> "Chance",
                   name |-> self.name,
                   possibilities |-> [i \in 1..Len(self.possibilities) |->
                       [name |-> self.possibilities[i][1],
                        weight |-> (self.possibilities[i][2] * 1000)
                                      \div WeightSum(self.possibilities),
                        continuation |-> build_closure(f, self.possibilities[i][3])]]]]

ChanceBuilder_build(self, state, f) ==
    [state |-> state,
     branches |-> [kind |-> "Chance",
                   name |-> self.name,
                   possibilities |-> [i \in 1..Len(self.possibilities) |->
                       [name |-> self.possibilities[i][1],
                        weight |-> self.possibilities[i][2],
                        continuation |-> build_closure(f, self.possibilities[i][3])]]]]

(***************************************************************************)
(* Node::then (state.rs 269-315) and the closures it runs.                 *)
(***************************************************************************)
Called(lg, fn, mark, payload, state) ==
    Append(lg, [fn |-> fn, mark |-> mark, payload |-> payload, state |-> state])

(***************************************************************************)
(* A panic unwinds: the call that panics hands back no node, and neither   *)
(* does any call around it.  The result of such a call carries, in place   *)
(* of a node, the panic with its message and the player the message names  *)
(* ("" when it names none).                                                *)
(***************************************************************************)
panic(msg, player) ==
    [state |-> <<>>, branches |-> [kind |-> "Panic", msg |-> msg, player |-> player]]

Panicked(r) == r.node.branches.kind = "Panic"

(***************************************************************************)
(* EventHandler's default hooks, state.rs 224-234; Ability (ability.rs 6)  *)
(* and Effect (effect.rs 6) override none of them.                         *)
(***************************************************************************)
\* a hook that ends the run
on_etb_ends(state) == end(state)

on_turn_start(state) == pending(state)

on_turn_end(state) == pending(state)

on_etb(state) == pending(state)

DefaultHooks == {"on_turn_start", "on_turn_end", "on_etb"}

(***************************************************************************)
(* impl Try for Node, state.rs 318-347.  A Result is [tag, v]; a           *)
(* constructor that panics gives the panic in place of the node.           *)
(***************************************************************************)
into_result(self) ==
    IF self.branches.kind = "End" THEN [tag |-> "Err", v |-> self]
    ELSE [tag |-> "Ok", v |-> self]

from_error(v) ==
    IF v.branches.kind \in {"Chance", "Decision", "Pending"} THEN v
    ELSE panic("Invalid Ok", "")

from_ok(v) ==
    IF v.branches.kind \in {"Chance", "Decision", "Pending"} THEN panic("Invalid Error", "")
    ELSE v

\* the ? operator on a node inside a step: on Err(e) the step returns
\* from_error(e), on Ok(v) the step goes on with v
Question(self) ==
    LET r == into_result(self) IN
    IF r.tag = "Err" THEN [flow |-> "return", node |-> from_error(r.v)]
    ELSE [flow |-> "continue", node |-> r.v]

(***************************************************************************)
(* The single-battle domain, single.rs.  An Option is <<>> (None) or <<x>>  *)
(* (Some(x)).  A Pokemon is written as its number: its Display is the name *)
(* of that number (pokemon.rs 68-76, no nickname), and its moves and       *)
(* current_hp are looked up by it.  The moves' type (crate::pokemove) and  *)
(* the field current_hp are read by single.rs 117-128 and defined in none  *)
(* of the sources; every Ability (ability.rs 6) keeps the default hooks.   *)
(***************************************************************************)
None == <<>>

Some(x) == <<x>>

\* the moves of each Pokemon, by number (0, 1, 2, ...): two, one, none
moves(p) ==
    CASE p = 0 -> <<"Teleport", "Psychic">>
      [] p = 1 -> <<"Tackle">>
      [] OTHER -> <<>>

\* Pokemon 2 has fainted
current_hp(p) == IF p = 2 THEN 0 ELSE 10

\* the Display of a move
move_to_string(m) == m

UsePokeMove(i) == [kind |-> "UsePokeMove", i |-> i]

SwitchPokemon(i) == [kind |-> "SwitchPokemon", i |-> i]

PlayerState(team, idx, action) ==
    [active_pokemon_idx |-> idx, turn_action |-> action, team |-> team]

State_player(self, p) == IF p = "Player1" THEN self.player_1 ELSE self.player_2

\* *self.player_mut(p) = ps
State_player_mut(self, p, ps) ==
    IF p = "Player1" THEN [self EXCEPT !.player_1 = ps] ELSE [self EXCEPT !.player_2 = ps]

active_pokemon(ps) ==
    IF ps.active_pokemon_idx = None THEN None
    ELSE Some(ps.team[ps.active_pokemon_idx[1] + 1])

\* function items and closures of single.rs, as steps
Fn(name) == [k |-> name]

ChooseActiveStep == [k |-> "choose_active_step"]

SetActive(p) == [k |-> "set_active", player |-> p]

EtbStep == [k |-> "etb_step"]

ChooseActionStep == [k |-> "choose_action_step"]

SetAction(p) == [k |-> "set_action", player |-> p]

\* the chosen index written to the other player
set_active_other(state, p, chosen) ==
    LET q == IF p = "Player1" THEN "Player2" ELSE "Player1"
    IN pending(State_player_mut(state, q,
                          [State_player(state, q) EXCEPT !.active_pokemon_idx = Some(chosen)]))

\* the chosen index written one too high
set_active_next(state, p, chosen) ==
    pending(State_player_mut(state, p,
                       [State_player(state, p) EXCEPT !.active_pokemon_idx = Some(chosen + 1)]))

\* single.rs 93-96
set_active(state, p, chosen) ==
    pending(State_player_mut(state, p,
                       [State_player(state, p) EXCEPT !.active_pokemon_idx = Some(chosen)]))

\* single.rs 132-135
set_action(state, p, chosen) ==
    pending(State_player_mut(state, p,
                             [State_player(state, p) EXCEPT !.turn_action = Some(chosen)]))

\* single.rs 90-97, the closure folded over the players
choose_active_step(state, p) ==
    DecisionBuilder_build(
        indexed_choices(DecisionBuilder_new("Choose your active pokemon", p),
                        State_player(state, p).team),
        state, SetActive(p))

Enumerate(s) == [i \in 1..Len(s) |-> <<i - 1, s[i]>>]

\* the switch menu filtered on the index alone: fainted members are offered
choose_action_step_any_hp(state, p) ==
    LET player_state == State_player(state, p) IN
    IF player_state.active_pokemon_idx = None
    THEN panic("No active pokemon for {} when choosing actions", p)
    ELSE LET active_pokemon_idx == player_state.active_pokemon_idx[1]
             mv == moves(player_state.team[active_pokemon_idx + 1])
             move_choices ==
                 [i \in 1..Len(mv) |-> <<move_to_string(mv[i]), UsePokeMove(i - 1)>>]
             kept == SelectSeq(Enumerate(player_state.team),
                               LAMBDA ip : ip[1] # active_pokemon_idx)
             switch_choices ==
                 [i \in 1..Len(kept) |-> <<to_string(kept[i][2]), SwitchPokemon(kept[i][1])>>]
         IN DecisionBuilder_build(
                named_choices(DecisionBuilder_new("Choose your action", p),
                              move_choices \o switch_choices),
                state, SetAction(p))

\* single.rs 111-136, the closure folded over the players
choose_action_step(state, p) ==
    LET player_state == State_player(state, p) IN
    IF player_state.active_pokemon_idx = None
    THEN panic("No active pokemon for {} when choosing actions", p)
    ELSE LET active_pokemon_idx == player_state.active_pokemon_idx[1]
             mv == moves(player_state.team[active_pokemon_idx + 1])
             move_choices ==
                 [i \in 1..Len(mv) |-> <<move_to_string(mv[i]), UsePokeMove(i - 1)>>]
             kept == SelectSeq(Enumerate(player_state.team),
                               LAMBDA ip : ip[1] # active_pokemon_idx /\ current_hp(ip[2]) > 0)
             switch_choices ==
                 [i \in 1..Len(kept) |-> <<to_string(kept[i][2]), SwitchPokemon(kept[i][1])>>]
         IN DecisionBuilder_build(
                named_choices(DecisionBuilder_new("Choose your action", p),
                              move_choices \o switch_choices),
                state, SetAction(p))

\* the turn's actions end the game
execute_actions_ends(self) == end(self)

\* single.rs 139-141
execute_actions(self) == pending(self)

\* single.rs 143-151: the unwrap of no active pokemon panics, naming no player
pokemon_etb(self, p) ==
    IF active_pokemon(State_player(self, p)) = None
    THEN panic("called Option::unwrap() on a None value", "")
    ELSE on_etb(self)

RECURSIVE then(_, _, _), Apply(_, _, _), Call2(_, _, _, _)

RECURSIVE choose_starting_pokemon(_, _), initial_etb(_, _), main_turn(_, _), choose_actions(_, _)

\* r.node.then(f) for the result r of a call, unless that call panicked
and_then(r, f) == IF Panicked(r) THEN r ELSE then(r.node, f, r.log)

(***************************************************************************)
(* Faulty variants of then, each a slip the code could have made; the      *)
(* properties below are checked to tell them from then.                    *)
(***************************************************************************)
\* self with every continuation c replaced by W(c), nothing else changed
Rewrapped(self, W(_)) ==
    LET b == self.branches IN
    CASE b.kind = "Chance" ->
           [self EXCEPT !.branches.possibilities =
               [i \in 1..Len(b.possibilities) |->
                   [b.possibilities[i] EXCEPT !.continuation = W(@)]]]
      [] b.kind = "Decision" ->
           [self EXCEPT !.branches.choices =
               [i \in 1..Len(b.choices) |-> [b.choices[i] EXCEPT !.continuation = W(@)]]]
      [] OTHER -> self

\* the rest of then, for a node that does not branch
ThenFlat(self, f, lg) ==
    IF self.branches.kind = "Pending" THEN Apply(f, self.state, lg)
    ELSE [node |-> end(self.state), log |-> lg]

\* End taken for Pending: the step runs on a finished node
then_end_runs(self, f, lg) ==
    IF self.branches.kind \in {"Chance", "Decision"}
    THEN LET W(c) == then_closure(c, f) IN [node |-> Rewrapped(self, W), log |-> lg]
    ELSE Apply(f, self.state, lg)

\* Pending handed back as it is: the step is dropped
then_pending_drops(self, f, lg) ==
    IF self.branches.kind \in {"Chance", "Decision"}
    THEN LET W(c) == then_closure(c, f) IN [node |-> Rewrapped(self, W), log |-> lg]
    ELSE [node |-> self, log |-> lg]

\* the step run at composition on a branching node, its node thrown away
then_eager(self, f, lg) ==
    CASE self.branches.kind \in {"Chance", "Decision"} ->
           LET W(c) == then_closure(c, f)
           IN [node |-> Rewrapped(self, W), log |-> Apply(f, self.state, lg).log]
      [] self.branches.kind = "Pending" -> Apply(f, self.state, lg)
      [] self.branches.kind = "End" -> [node |-> end(self.state), log |-> lg]

\* the step composed twice onto every entry of a branching node
then_twice(self, f, lg) ==
    CASE self.branches.kind \in {"Chance", "Decision"} ->
           LET W(c) == then_closure(then_closure(c, f), f)
           IN [node |-> Rewrapped(self, W), log |-> lg]
      [] self.branches.kind = "Pending" -> Apply(f, self.state, lg)
      [] self.branches.kind = "End" -> [node |-> end(self.state), log |-> lg]

\* the entries rebuilt back to front
then_reversed(self, f, lg) ==
    IF self.branches.kind \in {"Chance", "Decision"}
    THEN LET W(c) == then_closure(c, f)
             n == Rewrapped(self, W)
             Rev(q) == [i \in 1..Len(q) |-> q[Len(q) + 1 - i]]
         IN [node |-> IF n.branches.kind = "Chance"
                      THEN [n EXCEPT !.branches.possibilities = Rev(@)]
                      ELSE [n EXCEPT !.branches.choices = Rev(@)],
             log |-> lg]
    ELSE ThenFlat(self, f, lg)

\* composes in the wrong order: move |s| f(s).then(cont)
then_swapped(self, f, lg) ==
    IF self.branches.kind \in {"Chance", "Decision"}
    THEN LET W(c) == then_closure(f, c) IN [node |-> Rewrapped(self, W), log |-> lg]
    ELSE ThenFlat(self, f, lg)

then(self, f, lg) ==
    LET b == self.branches IN
    CASE b.kind = "Chance" ->
           [node |-> [state |-> self.state,
                      branches |-> [kind |-> "Chance",
                                    name |-> b.name,
                                    possibilities |-> [i \in 1..Len(b.possibilities) |->
                                        [name |-> b.possibilities[i].name,
                                         weight |-> b.possibilities[i].weight,
                                         continuation |->
                                             then_closure(b.possibilities[i].continuation, f)]]]],
            log |-> lg]
      [] b.kind = "Decision" ->
           [node |-> [state |-> self.state,
                      branches |-> [kind |-> "Decision",
                                    name |-> b.name,
                                    player |-> b.player,
                                    choices |-> [i \in 1..Len(b.choices) |->
                                        [name |-> b.choices[i].name,
                                         continuation |->
                                             then_closure(b.choices[i].continuation, f)]]]],
            log |-> lg]
      [] b.kind = "Pending" -> Apply(f, self.state, lg)
      [] b.kind = "End" -> [node |-> end(self.state), log |-> lg]

\* c(s) for a closure c: FnOnce(S) -> Node<S>
Apply(c, s, lg) ==
    CASE c.k = "then_closure" -> and_then(Apply(c.cont, s, lg), c.f)
      [] c.k = "build_closure" -> Call2(c.f, s, c.c, lg)
      [] c.k = "fold_closure" -> Call2(c.f, s, c.item, lg)
      [] c.k = "seq_closure" -> and_then(Apply(c.f, s, lg), c.g)
      [] c.k = "default_hook" ->
           [node |-> CASE c.which = "on_turn_start" -> on_turn_start(s)
                       [] c.which = "on_turn_end" -> on_turn_end(s)
                       [] c.which = "on_etb" -> on_etb(s),
            log |-> Called(lg, c.which, 0, -1, s)]
      [] c.k = "initial_etb" -> initial_etb(s, lg)
      [] c.k = "main_turn" -> main_turn(s, lg)
      [] c.k = "execute_actions" ->
           [node |-> execute_actions(s), log |-> Called(lg, "execute_actions", 0, -1, s)]
      [] c.k = "hook" ->
           [node |-> IF c.out = "End" THEN end(Append(s, c.mark))
                     ELSE pending(Append(s, c.mark)),
            log |-> Called(lg, "hook", c.mark, -1, s)]
      [] c.k = "ask" ->
           [node |-> DecisionBuilder_build(
                         indexed_choices(DecisionBuilder_new("ask", c.player),
                                         [i \in 1..c.n |-> i - 1]),
                         Append(s, c.mark), c.h),
            log |-> Called(lg, "ask", c.mark, -1, s)]
      [] c.k = "roll" ->
           [node |-> ChanceBuilder_build(
                         possibilities(ChanceBuilder_new("roll"),
                                       [i \in 1..Len(c.ws) |-> <<c.ws[i], i - 1>>]),
                         Append(s, c.mark), c.h),
            log |-> Called(lg, "roll", c.mark, -1, s)]

\* f(s, t) for a callback f: FnOnce(S, T) -> Node<S>
Call2(f, s, t, lg) ==
    CASE f.k = "route" ->
           Apply(f.nexts[IF t + 1 \in 1..Len(f.nexts) THEN t + 1 ELSE Len(f.nexts)],
                 Append(s, 10 + t),
                 Called(lg, "route", 0, t, s))
      [] f.k = "ask_item" ->
           [node |-> DecisionBuilder_build(
                         indexed_choices(DecisionBuilder_new("choose", t),
                                         [i \in 1..f.n |-> i - 1]),
                         s, SetFor(t)),
            log |-> Called(lg, "ask_item", 0, PlayerNo(t), s)]
      [] f.k = "set_for" ->
           [node |-> pending(Append(s, 100 * PlayerNo(f.player) + t)),
            log |-> Called(lg, "set_for", PlayerNo(f.player), t, s)]
      [] f.k = "choose_active_step" ->
           [node |-> choose_active_step(s, t),
            log |-> Called(lg, "choose_active_step", PlayerNo(t), -1, s)]
      [] f.k = "set_active" ->
           [node |-> set_active(s, f.player, t),
            log |-> Called(lg, "set_active", PlayerNo(f.player), t, s)]
      [] f.k = "etb_step" ->
           [node |-> pokemon_etb(s, t), log |-> Called(lg, "pokemon_etb", PlayerNo(t), -1, s)]
      [] f.k = "choose_action_step" ->
           [node |-> choose_action_step(s, t),
            log |-> Called(lg, "choose_action_step", PlayerNo(t), -1, s)]
      [] f.k = "set_action" ->
           [node |-> set_action(s, f.player, t),
            log |-> Called(lg, "set_action", PlayerNo(f.player), t, s)]
      [] f.k = "ask_item_end" ->
           [node |-> DecisionBuilder_build(
                         indexed_choices(DecisionBuilder_new("choose", t),
                                         [i \in 1..f.n |-> i - 1]),
                         s, SetOrEnd(t)),
            log |-> Called(lg, "ask_item_end", 0, PlayerNo(t), s)]
      [] f.k = "set_or_end" ->
           [node |-> IF t = 1 THEN end(Append(s, 100 * PlayerNo(f.player) + t))
                     ELSE pending(Append(s, 100 * PlayerNo(f.player) + t)),
            log |-> Called(lg, "set_or_end", PlayerNo(f.player), t, s)]

(***************************************************************************)
(* StateBase::fold, state.rs 13-24.                                        *)
(***************************************************************************)
RECURSIVE iter_fold(_, _, _)

\* the items taken from the back (rfold)
iter_fold_rev(acc, items, f) ==
    IF items = <<>> THEN acc
    ELSE iter_fold(and_then(acc, fold_closure(f, items[Len(items)])),
                   SubSeq(items, 1, Len(items) - 1), f)

\* Iterator::fold(init, |node, item| node.then(move |state| f(state, item)))
iter_fold(acc, items, f) ==
    IF items = <<>> THEN acc
    ELSE iter_fold(and_then(acc, fold_closure(f, Head(items))), Tail(items), f)

\* the accumulator seeded with Node::end
fold_from_end(self, iter, f, lg) == iter_fold([node |-> end(self), log |-> lg], iter, f)

fold(self, iter, f, lg) == iter_fold([node |-> pending(self), log |-> lg], iter, f)

(***************************************************************************)
(* The steps of the game, single.rs 69-108.                                *)
(***************************************************************************)
choose_starting_pokemon(self, lg) ==
    fold(self, Player_values, ChooseActiveStep,
         Called(lg, "choose_starting_pokemon", 0, -1, self))

initial_etb(self, lg) ==
    fold(self, Player_values, EtbStep, Called(lg, "initial_etb", 0, -1, self))

choose_actions(self, lg) ==
    fold(self, Player_values, ChooseActionStep, Called(lg, "choose_actions", 0, -1, self))

main_turn(self, lg) ==
    and_then(and_then(choose_actions(self, Called(lg, "main_turn", 0, -1, self)),
                      Fn("execute_actions")),
             Fn("main_turn"))

start(player_1_team, player_2_team, lg) ==
    LET state == [player_1 |-> PlayerState(player_1_team, None, None),
                  player_2 |-> PlayerState(player_2_team, None, None)]
    IN and_then(and_then(choose_starting_pokemon(state, Called(lg, "start", 0, -1, state)),
                         Fn("initial_etb")),
                Fn("main_turn"))

(***************************************************************************)
(* The inputs the runs draw from.                                          *)
(***************************************************************************)
InitStates == {<<>>, <<7>>}

HookP == Hook(1, "Pending")

HookE == Hook(2, "End")

\* a Chance of two outcomes: the first goes on (Pending), the second ends
RollC == Roll(4, <<100, 900>>, Route(<<Hook(5, "Pending"), Hook(6, "End")>>))

\* a Decision of two choices: the first goes on, the second ends
AskD == Ask(3, "Player1", 2, Route(<<HookP, HookE>>))

\* a Decision whose first choice opens a Chance and whose second goes on
Nested == Ask(8, "Player2", 2, Route(<<RollC, Hook(9, "Pending")>>))

Steps == {HookP, HookE, RollC, Nested}

FoldItems == {<<>>, <<"Player1">>, <<"Player1", "Player2">>, <<"Player2", "Player1">>}

\* fold steps: a 2-choice Decision per item (never ending, or ending at its second
\* choice), or a callback that ends at the second item
FoldSteps == {AskItem(2), AskItemEnd(2), Route(<<AskD, HookE>>)}

\* under Route an item counts as its number less one
ItemArg(f, item) == IF f.k = "route" THEN PlayerNo(item) - 1 ELSE item

NoNode == [state |-> <<>>, branches |-> [kind |-> "None"]]

NoStep == [k |-> "none"]

NoBuilder == [name |-> "none"]

Op(op, pre, f, idx, items) ==
    [op |-> op, pre |-> pre, f |-> f, idx |-> idx, items |-> items, plog |-> log]

IsBranching(n) == n.branches.kind \in {"Decision", "Chance"}

\* the choices of a Decision or the possibilities of a Chance
Entries(n) ==
    CASE n.branches.kind = "Decision" -> n.branches.choices
      [] n.branches.kind = "Chance" -> n.branches.possibilities
      [] OTHER -> <<>>

(***************************************************************************)
(* The engine under a test: a State is turned into a Node (end, pending,   *)
(* fold), steps are composed onto it with then, and a driver resolves the  *)
(* branches of the node it holds, passing the node's State to the          *)
(* continuation it picks.                                                  *)
(***************************************************************************)
Init ==
    /\ pc = "state"
    /\ held \in InitStates
    /\ builder = NoBuilder
    /\ node = NoNode
    /\ log = <<>>
    /\ last = [op |-> "init", pre |-> NoNode, f |-> NoStep, idx |-> 0,
               items |-> <<>>, plog |-> <<>>]
    /\ nthen = 0

NodeEnd ==
    /\ pc = "state"
    /\ node' = end(held)
    /\ pc' = "node"
    /\ last' = Op("end", node, NoStep, 0, <<>>)
    /\ UNCHANGED <<held, builder, log, nthen>>

NodePending ==
    /\ pc = "state"
    /\ node' = pending(held)
    /\ pc' = "node"
    /\ last' = Op("pending", node, NoStep, 0, <<>>)
    /\ UNCHANGED <<held, builder, log, nthen>>

\* a step called on the State directly, as State::start calls its first step
Invoke ==
    /\ pc = "state"
    /\ \E f \in Steps :
          LET r == Apply(f, held, log)
          IN /\ node' = r.node
             /\ log' = r.log
             /\ last' = Op("invoke", node, f, 0, <<>>)
    /\ pc' = "node"
    /\ UNCHANGED <<held, builder, nthen>>

Fold ==
    /\ pc = "state"
    /\ \E items \in FoldItems, f \in FoldSteps :
          LET its == [i \in 1..Len(items) |-> ItemArg(f, items[i])]
              r == fold(held, its, f, log)
          IN /\ node' = r.node
             /\ log' = r.log
             /\ last' = Op("fold", node, f, 0, its)
    /\ pc' = "node"
    /\ UNCHANGED <<held, builder, nthen>>

Then ==
    /\ pc = "node"
    /\ nthen < MaxThen
    /\ \E f \in Steps :
          LET r == then(node, f, log)
          IN /\ node' = r.node
             /\ log' = r.log
             /\ last' = Op("then", node, f, 0, <<>>)
    /\ nthen' = nthen + 1
    /\ UNCHANGED <<pc, held, builder>>

Resolve ==
    /\ pc = "node"
    /\ IsBranching(node)
    /\ \E i \in 1..Len(Entries(node)) :
          LET r == Apply(Entries(node)[i].continuation, node.state, log)
          IN /\ node' = r.node
             /\ log' = r.log
             /\ last' = Op("resolve", node, NoStep, i, <<>>)
    /\ UNCHANGED <<pc, held, builder, nthen>>

Next == NodeEnd \/ NodePending \/ Invoke \/ Fold \/ Then \/ Resolve

Spec == Init /\ [][Next]_vars

(***************************************************************************)
(* The engine with the default hooks and the ? operator: a default hook of *)
(* EventHandler is composed onto the node the run holds, and a step        *)
(* applies ? to the node it holds.  A run that panics holds no node: it    *)
(* keeps the panic in the node's place.                                    *)
(***************************************************************************)
ThenDefault ==
    /\ pc = "node"
    /\ nthen < MaxThen
    /\ \E w \in DefaultHooks :
          LET r == then(node, DefaultHook(w), log)
          IN /\ node' = r.node
             /\ log' = r.log
             /\ last' = Op("then_hook", node, DefaultHook(w), 0, <<>>)
    /\ nthen' = nthen + 1
    /\ UNCHANGED <<pc, held, builder>>

Try ==
    /\ pc = "node"
    /\ LET q == Question(node)
       IN IF q.node.branches.kind = "Panic"
          THEN pc' = "panic" /\ node' = q.node
          ELSE pc' = "node" /\ node' = q.node
    /\ last' = Op("try", node, NoStep, 0, <<>>)
    /\ UNCHANGED <<held, builder, log, nthen>>

NextFlow == Next \/ ThenDefault \/ Try

SpecFlow == Init /\ [][NextFlow]_vars

(***************************************************************************)
(* The game under a driver: State::start builds the root node from two     *)
(* teams and the driver resolves one choice of the Decision it holds, time *)
(* after time.  A test also calls choose_actions and pokemon_etb on a      *)
(* State of its own making, where an active pokemon may be unset.          *)
(***************************************************************************)
\* teams of none, one, two and three Pokemon; Pokemon 2 has fainted
Teams == {<<>>, <<0>>, <<0, 1>>, <<1, 2, 0>>}

\* States in which each player's active pokemon is unset or the first of the team
GameStates ==
    {[player_1 |-> PlayerState(<<0, 1>>, i1, None),
      player_2 |-> PlayerState(<<1, 2, 0>>, i2, None)] :
        i1 \in {None, Some(0)}, i2 \in {None, Some(0)}}

Resolutions(lg) ==
    Cardinality({j \in 1..Len(lg) : lg[j].fn \in {"set_active", "set_action"}})

InitGame == Init /\ held = <<>>

Start ==
    /\ pc = "state"
    /\ \E t1 \in Teams, t2 \in Teams :
          LET r == start(t1, t2, log)
          IN /\ node' = r.node
             /\ log' = r.log
             /\ pc' = IF Panicked(r) THEN "panic" ELSE "node"
             /\ last' = Op("start", node, NoStep, 0, <<t1, t2>>)
    /\ UNCHANGED <<held, builder, nthen>>

CallChooseActions ==
    /\ pc = "state"
    /\ \E s \in GameStates :
          LET r == choose_actions(s, log)
          IN /\ node' = r.node
             /\ log' = r.log
             /\ pc' = IF Panicked(r) THEN "panic" ELSE "node"
             /\ last' = Op("choose_actions", node, NoStep, 0, <<s>>)
    /\ UNCHANGED <<held, builder, nthen>>

CallPokemonEtb ==
    /\ pc = "state"
    /\ \E s \in GameStates, i \in 1..Len(Player_values) :
          LET r == Call2(EtbStep, s, Player_values[i], log)
          IN /\ node' = r.node
             /\ log' = r.log
             /\ pc' = IF Panicked(r) THEN "panic" ELSE "node"
             /\ last' = Op("pokemon_etb", node, NoStep, i, <<s>>)
    /\ UNCHANGED <<held, builder, nthen>>

Drive ==
    /\ pc = "node"
    /\ IsBranching(node)
    /\ Resolutions(log) < MaxResolves
    /\ \E i \in 1..Len(Entries(node)) :
          LET r == Apply(Entries(node)[i].continuation, node.state, log)
          IN /\ node' = r.node
             /\ log' = r.log
             /\ pc' = IF Panicked(r) THEN "panic" ELSE "node"
             /\ last' = Op("resolve", node, NoStep, i, <<>>)
    /\ UNCHANGED <<held, builder, nthen>>

NextGame == Start \/ CallChooseActions \/ CallPokemonEtb \/ Drive

SpecGame == InitGame /\ [][NextGame]_vars

(***************************************************************************)
(* The builders under a test: a builder is created, entries are            *)
(* accumulated by its methods, build makes the node, and a driver resolves *)
(* it.  After build the variable builder keeps what was accumulated.       *)
(***************************************************************************)
\* <<label, payload>>: the label "A" is given to two payloads
NamedEntries == {<<"A", 0>>, <<"A", 1>>}

Payloads == {1, 2}

\* items of a roster, by number; an item's number is not its position
Rosters == {<<>>, <<4>>, <<6, 4>>, <<5, 4, 6>>, <<4, 6, 5, 4>>}

\* weights in thousandths; 300 and 900 do not add up to 1
Weights == {300, 900}

BuildCallbacks == {Route(<<HookP, HookE, Hook(5, "Pending")>>), SetFor("Player2")}

Fits(b, k) == Len(b) + k <= MaxChoices

NewDecision ==
    /\ pc = "state"
    /\ \E player \in {Player_values[i] : i \in 1..Len(Player_values)} :
          builder' = DecisionBuilder_new("pick", player)
    /\ pc' = "dbuilder"
    /\ last' = Op("new", NoBuilder, NoStep, 0, <<>>)
    /\ UNCHANGED <<held, node, log, nthen>>

NamedChoice ==
    /\ pc = "dbuilder"
    /\ Fits(builder.choices, 1)
    /\ \E e \in NamedEntries :
          /\ builder' = named_choice(builder, e[1], e[2])
          /\ last' = Op("named_choice", builder, NoStep, 0, <<e>>)
    /\ UNCHANGED <<pc, held, node, log, nthen>>

NamedChoices ==
    /\ pc = "dbuilder"
    /\ Fits(builder.choices, 2)
    /\ \E e1 \in NamedEntries, e2 \in NamedEntries :
          /\ builder' = named_choices(builder, <<e1, e2>>)
          /\ last' = Op("named_choices", builder, NoStep, 0, <<e1, e2>>)
    /\ UNCHANGED <<pc, held, node, log, nthen>>

Choice ==
    /\ pc = "dbuilder"
    /\ Fits(builder.choices, 1)
    /\ \E c \in Payloads :
          /\ builder' = choice(builder, c)
          /\ last' = Op("choice", builder, NoStep, 0, <<c>>)
    /\ UNCHANGED <<pc, held, node, log, nthen>>

Choices ==
    /\ pc = "dbuilder"
    /\ Fits(builder.choices, 2)
    /\ \E c1 \in Payloads, c2 \in Payloads :
          /\ builder' = choices(builder, <<c1, c2>>)
          /\ last' = Op("choices", builder, NoStep, 0, <<c1, c2>>)
    /\ UNCHANGED <<pc, held, node, log, nthen>>

IndexedChoices ==
    /\ pc = "dbuilder"
    /\ \E items \in Rosters :
          /\ Fits(builder.choices, Len(items))
          /\ builder' = indexed_choices(builder, items)
          /\ last' = Op("indexed_choices", builder, NoStep, 0, items)
    /\ UNCHANGED <<pc, held, node, log, nthen>>

YnChoices ==
    /\ pc = "dbuilder"
    /\ Fits(builder.choices, 2)
    /\ builder' = yn_choices(builder)
    /\ last' = Op("yn_choices", builder, NoStep, 0, <<>>)
    /\ UNCHANGED <<pc, held, node, log, nthen>>

DecisionBuild ==
    /\ pc = "dbuilder"
    /\ \E f \in BuildCallbacks :
          /\ node' = DecisionBuilder_build(builder, held, f)
          /\ last' = Op("dbuild", node, f, 0, builder.choices)
    /\ pc' = "node"
    /\ UNCHANGED <<held, builder, log, nthen>>

NewChance ==
    /\ pc = "state"
    /\ builder' = ChanceBuilder_new("odds")
    /\ pc' = "cbuilder"
    /\ last' = Op("new", NoBuilder, NoStep, 0, <<>>)
    /\ UNCHANGED <<held, node, log, nthen>>

NamedPossibility ==
    /\ pc = "cbuilder"
    /\ Fits(builder.possibilities, 1)
    /\ \E e \in NamedEntries :
          LET w == IF e[2] = 0 THEN 100 ELSE 900
          IN /\ builder' = named_possibility(builder, e[1], w, e[2])
             /\ last' = Op("named_possibility", builder, NoStep, 0, <<<<e[1], w, e[2]>>>>)
    /\ UNCHANGED <<pc, held, node, log, nthen>>

NamedPossibilities ==
    /\ pc = "cbuilder"
    /\ Fits(builder.possibilities, 2)
    /\ \E e \in NamedEntries, w \in Weights :
          LET ps == <<<<e[1], w, e[2]>>, <<"B", 900, 2>>>>
          IN /\ builder' = named_possibilities(builder, ps)
             /\ last' = Op("named_possibilities", builder, NoStep, 0, ps)
    /\ UNCHANGED <<pc, held, node, log, nthen>>

Possibility ==
    /\ pc = "cbuilder"
    /\ Fits(builder.possibilities, 1)
    /\ \E w \in Weights, p \in {2} :
          /\ builder' = possibility(builder, w, p)
          /\ last' = Op("possibility", builder, NoStep, 0, <<<<w, p>>>>)
    /\ UNCHANGED <<pc, held, node, log, nthen>>

Possibilities ==
    /\ pc = "cbuilder"
    /\ Fits(builder.possibilities, 2)
    /\ \E w1 \in Weights, w2 \in Weights :
          LET ps == <<<<w1, 0>>, <<w2, 1>>>>
          IN /\ builder' = possibilities(builder, ps)
             /\ last' = Op("possibilities", builder, NoStep, 0, ps)
    /\ UNCHANGED <<pc, held, node, log, nthen>>

ChanceBuild ==
    /\ pc = "cbuilder"
    /\ \E f \in BuildCallbacks :
          /\ node' = ChanceBuilder_build(builder, held, f)
          /\ last' = Op("cbuild", node, f, 0, builder.possibilities)
    /\ pc' = "node"
    /\ UNCHANGED <<held, builder, log, nthen>>

NextBuilder ==
    \/ NewDecision \/ NamedChoice \/ NamedChoices \/ Choice \/ Choices
    \/ IndexedChoices \/ YnChoices \/ DecisionBuild
    \/ NewChance \/ NamedPossibility \/ NamedPossibilities \/ Possibility
    \/ Possibilities \/ ChanceBuild
    \/ Resolve

SpecBuilder == Init /\ [][NextBuilder]_vars

(***************************************************************************)
(* What a driver sees of a node, and the tree of what it sees along every  *)
(* sequence of resolutions, to a depth.                                    *)
(***************************************************************************)
Obs(n) ==
    CASE n.branches.kind = "Decision" ->
           [kind |-> "Decision", state |-> n.state, name |-> n.branches.name,
            player |-> n.branches.player,
            labels |-> [i \in 1..Len(n.branches.choices) |-> n.branches.choices[i].name]]
      [] n.branches.kind = "Chance" ->
           [kind |-> "Chance", state |-> n.state, name |-> n.branches.name,
            labels |-> [i \in 1..Len(n.branches.possibilities) |->
                           <<n.branches.possibilities[i].name,
                             n.branches.possibilities[i].weight>>]]
      [] OTHER -> [kind |-> n.branches.kind, state |-> n.state]

RECURSIVE Unfold(_, _, _)

Unfold(n, lg, d) ==
    [obs |-> Obs(n),
     kids |-> IF d = 0 \/ ~IsBranching(n) THEN <<>>
              ELSE [i \in 1..Len(Entries(n)) |->
                       LET r == Apply(Entries(n)[i].continuation, n.state, lg)
                       IN Unfold(r.node, r.log, d - 1)]]

\* a.then(f).then(g)
ThenThen(a, f, g, lg) == and_then(then(a, f, lg), g)

(***************************************************************************)
(* C1: associativity of then.  For the node a run holds (End, Pending,     *)
(* Decision or Chance, with whatever continuations the compositions and    *)
(* resolutions so far have nested in it) and all steps f and g,            *)
(* a.then(f).then(g) and a.then(|s| f(s).then(g)) show a driver the same   *)
(* branches (kind, name, player, labels, weights) with the same State,     *)
(* along every sequence of resolutions, down to the same final State.      *)
(***************************************************************************)
C1_Associativity ==
    pc = "node" =>
        \A f \in Steps, g \in Steps :
            LET l == ThenThen(node, f, g, log)
                r == then(node, seq_closure(f, g), log)
            IN Unfold(l.node, l.log, MaxDepth) = Unfold(r.node, r.log, MaxDepth)

\* a Decision whose continuations are nested compositions, reached by resolving
C1_Witness ==
    /\ pc = "node"
    /\ last.op = "resolve"
    /\ node.branches.kind = "Decision"
    /\ nthen >= 1
    /\ \E i \in 1..Len(Entries(node)) :
          /\ Entries(node)[i].continuation.k = "then_closure"
          /\ Entries(node)[i].continuation.cont.k = "then_closure"

(***************************************************************************)
(* C2: short-circuit law.  Node::end(s).then(f) is an End node carrying    *)
(* exactly s and f is not invoked (the log does not grow); the same holds  *)
(* of every further then chained on the result.                            *)
(***************************************************************************)
C2_ShortCircuit ==
    /\ (last.op = "then" /\ last.pre.branches.kind = "End") =>
           /\ node = end(last.pre.state)
           /\ log = last.plog
    /\ (pc = "node" /\ node.branches.kind = "End") =>
           \A f \in Steps, g \in Steps :
               ThenThen(node, f, g, log) = [node |-> end(node.state), log |-> log]

\* a second then on an End node whose State some step has written
C2_Witness ==
    /\ last.op = "then"
    /\ last.pre.branches.kind = "End"
    /\ nthen >= 2
    /\ last.pre.state # held
    /\ last.f.k = "ask"

(***************************************************************************)
(* C3: identity-on-pending law.  Node::pending(s).then(f) is the node      *)
(* f(s): f is invoked once, at once, with s as it was, and what f returns  *)
(* is handed back as it is.                                                *)
(***************************************************************************)
C3_IdentityOnPending ==
    (last.op = "then" /\ last.pre.branches.kind = "Pending") =>
        LET s == last.pre.state
            r == Apply(last.f, s, last.plog)
        IN /\ node = r.node
           /\ log = Called(last.plog, last.f.k, last.f.mark, -1, s)
           /\ node.state = Append(s, last.f.mark)
           /\ \A i \in 1..Len(Entries(node)) :
                 Entries(node)[i].continuation = build_closure(last.f.h, i - 1)

\* a step that returns a Decision, composed onto a Pending node of a written State
C3_Witness ==
    /\ last.op = "then"
    /\ last.pre.branches.kind = "Pending"
    /\ last.pre.state # <<>>
    /\ node.branches.kind = "Decision"

(***************************************************************************)
(* C4: then is structural on a branching node.  a.then(f) has a's kind,    *)
(* State, name, player and entries (as many, in a's order, labels and      *)
(* weights as they were), no step or continuation runs, and resolving      *)
(* entry i with a state s gives cont_i(s).then(f) for a's i-th             *)
(* continuation cont_i.                                                    *)
(***************************************************************************)
ResolveStates(n) == {n.state, <<7, 7>>}

C4_Structural ==
    (last.op = "then" /\ IsBranching(last.pre)) =>
        /\ Obs(node) = Obs(last.pre)
        /\ log = last.plog
        /\ \A i \in 1..Len(Entries(last.pre)) :
              \A s \in ResolveStates(node) :
                  Apply(Entries(node)[i].continuation, s, log)
                      = LET r == Apply(Entries(last.pre)[i].continuation, s, log)
                        IN then(r.node, last.f, r.log)

\* a step composed onto a Chance of two possibilities of different weights
C4_Witness ==
    /\ last.op = "then"
    /\ last.pre.branches.kind = "Chance"
    /\ node.branches.kind = "Chance"
    /\ Len(node.branches.possibilities) = 2
    /\ node.branches.possibilities[1].weight # node.branches.possibilities[2].weight
    /\ node.branches.possibilities[1].continuation.k = "then_closure"

(***************************************************************************)
(* C5: a build with nothing accumulated is rejected.  The claim: build on  *)
(* a DecisionBuilder or ChanceBuilder with zero entries ends in a fatal    *)
(* error, and no Decision or Chance node with an empty list exists.        *)
(***************************************************************************)
C5_EmptyBuildRejected ==
    /\ (last.op \in {"dbuild", "cbuild"} /\ last.items = <<>>) => pc = "panic"
    /\ (pc = "node" /\ IsBranching(node)) => Len(Entries(node)) >= 1

(***************************************************************************)
(* C8: DecisionBuilder binds each choice to its payload.  With n >= 1      *)
(* entries accumulated, build(state, f) is a Decision with the State given *)
(* to build, the builder's name and player, and n choices labelled in      *)
(* accumulation order; resolving choice i with a state s is f(s, payload   *)
(* i), and f is called once, with that payload.  indexed_choices appends,  *)
(* per item in order, the item's rendering as label and its 0-based        *)
(* position as payload.                                                    *)
(***************************************************************************)
\* the calls made to a build callback, in order, as <<payload, state>>
RECURSIVE CallbackCalls(_)

CallbackCalls(lg) ==
    IF lg = <<>> THEN <<>>
    ELSE (IF Head(lg).fn \in {"route", "set_for"}
          THEN <<<<Head(lg).payload, Head(lg).state>>>> ELSE <<>>)
         \o CallbackCalls(Tail(lg))

IsDecisionBuilder(b) == "choices" \in DOMAIN b

IsChanceBuilder(b) == "possibilities" \in DOMAIN b

FirstResolve == pc = "node" /\ last.op = "resolve" /\ last.plog = <<>>

C8_PayloadBinding ==
    /\ (last.op = "dbuild" /\ Len(builder.choices) >= 1) =>
           /\ node.state = held
           /\ node.branches.kind = "Decision"
           /\ node.branches.name = builder.name
           /\ node.branches.player = builder.player
           /\ Len(node.branches.choices) = Len(builder.choices)
           /\ \A i \in 1..Len(builder.choices) :
                 /\ node.branches.choices[i].name = builder.choices[i][1]
                 /\ \A s \in ResolveStates(node) :
                       LET r == Apply(node.branches.choices[i].continuation, s, log)
                       IN /\ r = Call2(last.f, s, builder.choices[i][2], log)
                          /\ CallbackCalls(r.log) = <<<<builder.choices[i][2], s>>>>
    /\ last.op = "indexed_choices" =>
           builder.choices = last.pre.choices \o
               [i \in 1..Len(last.items) |-> <<to_string(last.items[i]), i - 1>>]
    /\ (FirstResolve /\ IsDecisionBuilder(builder)) =>
           CallbackCalls(log) = <<<<builder.choices[last.idx][2], held>>>>

\* a roster of three indexed, the choice at index 2 resolved: payload 2
C8_Witness ==
    /\ FirstResolve
    /\ IsDecisionBuilder(builder)
    /\ builder.choices = <<<<"Flareon", 0>>, <<"Eevee", 1>>, <<"Gastly", 2>>>>
    /\ last.idx = 3
    /\ held # <<>>
    /\ CallbackCalls(log) = <<<<2, held>>>>

(***************************************************************************)
(* C9: ChanceBuilder keeps the possibilities and binds each to its         *)
(* payload.  build gives a Chance with as many possibilities as were       *)
(* accumulated, labels and weights as given and in accumulation order;     *)
(* resolving possibility i calls the callback once, with payload i, and    *)
(* with no other possibility's payload.  possibilities appends, per        *)
(* <<weight, payload>>, the payload's rendering as label.                  *)
(***************************************************************************)
C9_ChancePreserved ==
    /\ last.op = "cbuild" =>
           /\ node.state = held
           /\ node.branches.kind = "Chance"
           /\ node.branches.name = builder.name
           /\ Len(node.branches.possibilities) = Len(builder.possibilities)
           /\ \A i \in 1..Len(builder.possibilities) :
                 /\ node.branches.possibilities[i].name = builder.possibilities[i][1]
                 /\ node.branches.possibilities[i].weight = builder.possibilities[i][2]
                 /\ \A s \in ResolveStates(node) :
                       LET r == Apply(node.branches.possibilities[i].continuation, s, log)
                       IN /\ r = Call2(last.f, s, builder.possibilities[i][3], log)
                          /\ CallbackCalls(r.log) = <<<<builder.possibilities[i][3], s>>>>
    /\ last.op = "possibilities" =>
           builder.possibilities = last.pre.possibilities \o
               [i \in 1..Len(last.items) |->
                   <<to_string(last.items[i][2]), last.items[i][1], last.items[i][2]>>]
    /\ (FirstResolve /\ IsChanceBuilder(builder)) =>
           CallbackCalls(log) = <<<<builder.possibilities[last.idx][3], held>>>>

\* two possibilities whose weights do not add up to 1, the second resolved
C9_Witness ==
    /\ FirstResolve
    /\ IsChanceBuilder(builder)
    /\ builder.possibilities = <<<<"Abra", 300, 0>>, <<"Bulbasaur", 900, 1>>>>
    /\ Obs(last.pre).labels = <<<<"Abra", 300>>, <<"Bulbasaur", 900>>>>
    /\ last.idx = 2
    /\ CallbackCalls(log) = <<<<1, held>>>>

(***************************************************************************)
(* C6: fold over no items.  fold(s, [], f) is a Pending node carrying s    *)
(* and f is not invoked.                                                   *)
(***************************************************************************)
C6_FoldEmpty ==
    (last.op = "fold" /\ last.items = <<>>) =>
        /\ node = pending(held)
        /\ log = <<>>

C6_Witness ==
    /\ last.op = "fold"
    /\ last.items = <<>>
    /\ held # <<>>
    /\ node.branches.kind = "Pending"

(***************************************************************************)
(* C7: fold keeps the items' order.  When f returns a Decision for its     *)
(* item, fold(s, items, f) is a Decision for the first item, resolving any *)
(* of its choices gives a Decision for the second, and so on along every   *)
(* path; after the last item's Decision no Decision is left.               *)
(***************************************************************************)
RECURSIVE DecisionsInOrder(_, _, _)

DecisionsInOrder(n, lg, items) ==
    IF items = <<>> THEN ~IsBranching(n)
    ELSE /\ n.branches.kind = "Decision"
         /\ n.branches.player = Head(items)
         /\ Len(n.branches.choices) >= 1
         /\ \A i \in 1..Len(n.branches.choices) :
               LET r == Apply(n.branches.choices[i].continuation, n.state, lg)
               IN DecisionsInOrder(r.node, r.log, Tail(items))

C7_FoldOrder ==
    (last.op = "fold" /\ last.f.k = "ask_item") =>
        DecisionsInOrder(node, log, last.items)

\* two players, the second of Player::values() first
C7_Witness ==
    /\ last.op = "fold"
    /\ last.f.k = "ask_item"
    /\ last.items = <<"Player2", "Player1">>
    /\ node.branches.kind = "Decision"
    /\ node.branches.player = "Player2"

(***************************************************************************)
(* C10: chained hooks with an early end.  Of three hooks composed in       *)
(* sequence over a State, the first returning Pending and the second End,  *)
(* each having written the State, the result is End with the State as the  *)
(* first and then the second wrote it, and the third is not invoked.       *)
(***************************************************************************)
HookCall(m, s) == [fn |-> "hook", mark |-> m, payload |-> -1, state |-> s]

\* the third hook has just been composed onto first(s).then(second)
ThreeHooks ==
    /\ last.op = "then"
    /\ last.f.k = "hook"
    /\ nthen = 2
    /\ Len(last.plog) = 2
    /\ last.plog[1] = HookCall(HookP.mark, held)
    /\ last.plog[2] = HookCall(HookE.mark, Append(held, HookP.mark))

C10_ChainedHooks ==
    ThreeHooks =>
        /\ node = end(held \o <<HookP.mark, HookE.mark>>)
        /\ log = <<HookCall(HookP.mark, held),
                   HookCall(HookE.mark, Append(held, HookP.mark))>>

C10_Witness ==
    /\ ThreeHooks
    /\ last.f = HookP
    /\ held # <<>>
    /\ node.branches.kind = "End"

(***************************************************************************)
(* C11: the default hooks are no-ops.  Each of on_turn_start, on_turn_end  *)
(* and on_etb returns the Pending node of the State it was given, as it    *)
(* was; and a.then(hook), for the node a a run holds, shows a driver what  *)
(* a shows it along every sequence of resolutions, with the same States.   *)
(***************************************************************************)
C11_DefaultHooksNoOp ==
    /\ pc = "node" =>
           \A w \in DefaultHooks :
               Apply(DefaultHook(w), node.state, log).node = pending(node.state)
    /\ last.op = "then_hook" =>
           /\ Unfold(node, log, MaxDepth) = Unfold(last.pre, last.plog, MaxDepth)
           /\ last.pre.branches.kind = "Pending" => node = last.pre

\* on_etb composed onto a Decision that holds nested compositions and a written State
C11_Witness ==
    /\ last.op = "then_hook"
    /\ last.f.which = "on_etb"
    /\ last.pre.branches.kind = "Decision"
    /\ last.pre.state # held
    /\ \E i \in 1..Len(Entries(last.pre)) :
          Entries(last.pre)[i].continuation.k = "then_closure"

(***************************************************************************)
(* C12 as stated: no node that results from a then or fold composition,    *)
(* and no node reached by resolving a branch of a composed node, is        *)
(* Pending.                                                                *)
(***************************************************************************)
Composed ==
    \/ last.op \in {"then", "fold"}
    \/ /\ last.op = "resolve"
       /\ Entries(last.pre)[last.idx].continuation.k = "then_closure"

C12_NoPendingObserved ==
    (pc = "node" /\ Composed) => node.branches.kind # "Pending"

\* the hooks the runs use, by mark
Hooks == {HookP, HookE, Hook(5, "Pending"), Hook(6, "End"), Hook(9, "Pending")}

\* the node the step of a logged call returned, for the steps that build no branches
StepResult(e) ==
    CASE e.fn = "hook" ->
           Apply(CHOOSE h \in Hooks : h.mark = e.mark, e.state, <<>>).node
      [] e.fn = "set_for" ->
           Call2(SetFor(Player_values[e.mark]), e.state, e.payload, <<>>).node
      [] e.fn = "set_or_end" ->
           Call2(SetOrEnd(Player_values[e.mark]), e.state, e.payload, <<>>).node
      [] OTHER -> NoNode

(***************************************************************************)
(* C12, amended: then never leaves a Pending receiver as it is, it runs    *)
(* its step on it at once; so a node that results from a then or fold      *)
(* composition, or from resolving a branch of a composed node, is Pending  *)
(* only as the Pending node the last step run on that path returned, or,   *)
(* for a fold over no items, as the Pending node of the folded State with  *)
(* no step run.                                                            *)
(***************************************************************************)
C12_PendingOnlyFromLastStep ==
    /\ (last.op = "then" /\ last.pre.branches.kind = "Pending") =>
           Len(log) > Len(last.plog)
    /\ (pc = "node" /\ Composed /\ node.branches.kind = "Pending") =>
           \/ /\ last.op = "fold"
              /\ last.items = <<>>
              /\ node = pending(held)
              /\ log = last.plog
           \/ /\ Len(log) > Len(last.plog)
              /\ node = StepResult(log[Len(log)])

\* resolving a branch of a composed node ends in the Pending node of the composed step
C12_Witness ==
    /\ pc = "node"
    /\ last.op = "resolve"
    /\ Entries(last.pre)[last.idx].continuation.k = "then_closure"
    /\ node.branches.kind = "Pending"
    /\ Len(log) >= Len(last.plog) + 2

(***************************************************************************)
(* C13: early-return round trip.  into_result classifies an End node as    *)
(* the early return and every other node as the continue case; and the ?   *)
(* operator (into_result, then from_error on the early return) hands the   *)
(* same node on, End out of the enclosing step and any other node to the   *)
(* rest of the step, with no fatal error.                                  *)
(***************************************************************************)
C13_EarlyReturnRoundTrip ==
    /\ pc = "node" =>
           (into_result(node).tag = "Err" <=> node.branches.kind = "End")
    /\ last.op = "try" =>
           /\ pc = "node"
           /\ node = last.pre

(***************************************************************************)
(* C15: then is lazy on a branching node.  a.then(f) on a Decision or      *)
(* Chance invokes nothing (the log is as it was); and a resolution runs    *)
(* the continuation of the resolved branch only: the calls it adds start   *)
(* with the callback of that branch, given its payload and the node's      *)
(* State, and no other call is made on that State (the callback of         *)
(* another branch would be one).                                           *)
(***************************************************************************)
C15_LazyOnBranching ==
    /\ (last.op = "then" /\ IsBranching(last.pre)) => log = last.plog
    /\ (pc = "node" /\ last.op = "resolve") =>
           LET n == Len(last.plog) IN
           /\ Len(log) > n
           /\ SubSeq(log, 1, n) = last.plog
           /\ log[n + 1].payload = last.idx - 1
           /\ log[n + 1].state = last.pre.state
           /\ \A j \in (n + 2)..Len(log) : log[j].state # last.pre.state

\* resolving the second outcome of a Chance that two steps were composed onto
C15_Witness ==
    /\ pc = "node"
    /\ last.op = "resolve"
    /\ last.pre.branches.kind = "Chance"
    /\ last.idx = 2
    /\ nthen = 2
    /\ Entries(last.pre)[last.idx].continuation.k = "then_closure"

(***************************************************************************)
(* C16: exactly-once application per path.  The node a a run holds and     *)
(* a.then(f), for a probe step f whose calls can be told from all others,  *)
(* are resolved side by side along every complete path (one branch per     *)
(* node, down to the End or Pending node that closes a's path).  On every  *)
(* path the calls of a's own continuations are the same in both, none made *)
(* twice; f is called exactly once, last, on the State a's path ended      *)
(* with, and its node closes the path, if a's path ends in Pending; f is   *)
(* not called, and a's End node closes the path, if it ends in End.        *)
(***************************************************************************)
Probes == {Hook(77, "Pending"), Hook(78, "End")}

IsProbeCall(e, f) == e.fn = "hook" /\ e.mark = f.mark

ProbeCalls(lg, f) == Cardinality({j \in 1..Len(lg) : IsProbeCall(lg[j], f)})

Strip(lg, f) == SelectSeq(lg, LAMBDA e : ~IsProbeCall(e, f))

NoCallTwice(lg, n0) == \A i, j \in (n0 + 1)..Len(lg) : lg[i] = lg[j] => i = j

RECURSIVE OncePerPath(_, _, _, _, _, _)

OncePerPath(a, lga, t, lgt, f, n0) ==
    IF IsBranching(a)
    THEN /\ Obs(t) = Obs(a)
         /\ \A i \in 1..Len(Entries(a)) :
               LET ra == Apply(Entries(a)[i].continuation, a.state, lga)
                   rt == Apply(Entries(t)[i].continuation, t.state, lgt)
               IN OncePerPath(ra.node, ra.log, rt.node, rt.log, f, n0)
    ELSE /\ Strip(lgt, f) = lga
         /\ NoCallTwice(lgt, n0)
         /\ IF a.branches.kind = "Pending"
            THEN /\ ProbeCalls(lgt, f) = 1
                 /\ lgt[Len(lgt)] = HookCall(f.mark, a.state)
                 /\ t = Apply(f, a.state, <<>>).node
            ELSE /\ ProbeCalls(lgt, f) = 0
                 /\ t = a

C16_ExactlyOncePerPath ==
    pc = "node" =>
        \A f \in Probes :
            LET r == then(node, f, log)
            IN OncePerPath(node, log, r.node, r.log, f, Len(log))

\* a Decision over a Chance with a Chance composed onto it: paths of one, two and
\* three resolutions, ending in Pending and in End
C16_Witness ==
    /\ pc = "node"
    /\ last.op = "then"
    /\ last.f = RollC
    /\ last.pre.branches.kind = "Decision"
    /\ last.pre.branches.player = "Player2"
    /\ nthen = 1

(***************************************************************************)
(* C17: End short-circuits fold per path.  The node of fold(s, items, f)   *)
(* is resolved along every complete path.  On every path the steps invoked *)
(* are those of a prefix of the items, in the items' order; no call is     *)
(* made after a call that returned End; a path that closes in End closes   *)
(* in the End node the last call returned, with the State it wrote; and a  *)
(* path that closes in Pending has run the steps of all the items.         *)
(***************************************************************************)
\* what a fold step logs of the item it is given
ItemCode(f, item) == IF f.k = "route" THEN item ELSE PlayerNo(item)

\* a call of the fold step itself: under Route the callback of AskD's Decision is
\* logged as a route call too, on a State that ends with AskD's mark
IsStepCall(e, f) ==
    /\ e.fn = f.k
    /\ (f.k = "route" /\ e.state # <<>>) => e.state[Len(e.state)] # AskD.mark

FoldLeaf(n, lg, f, items) ==
    LET calls == SelectSeq(lg, LAMBDA e : IsStepCall(e, f))
        k == Len(calls)
    IN /\ k <= Len(items)
       /\ \A j \in 1..k : calls[j].payload = ItemCode(f, items[j])
       /\ \A j \in 1..(Len(lg) - 1) : StepResult(lg[j]).branches.kind # "End"
       /\ n.branches.kind = "End" =>
              /\ k >= 1
              /\ n = StepResult(lg[Len(lg)])
       /\ n.branches.kind = "Pending" =>
              /\ k = Len(items)
              /\ n = IF k = 0 THEN pending(held) ELSE StepResult(lg[Len(lg)])

RECURSIVE FoldPaths(_, _, _, _)

FoldPaths(n, lg, f, items) ==
    IF IsBranching(n)
    THEN \A i \in 1..Len(Entries(n)) :
             LET r == Apply(Entries(n)[i].continuation, n.state, lg)
             IN FoldPaths(r.node, r.log, f, items)
    ELSE FoldLeaf(n, lg, f, items)

C17_FoldShortCircuit ==
    last.op = "fold" => FoldPaths(node, log, last.f, last.items)

\* a fold over two items whose first Decision can end the run
C17_Witness ==
    /\ last.op = "fold"
    /\ last.f = AskItemEnd(2)
    /\ last.items = <<"Player2", "Player1">>
    /\ held # <<>>
    /\ node.branches.kind = "Decision"

(***************************************************************************)
(* C14: a missing active pokemon is fatal and attributed.  Whenever the    *)
(* step of choose_actions for a player, or pokemon_etb for a player, is    *)
(* called on a State in which that player's active_pokemon_idx is None,    *)
(* the run panics in that call, the panic names that player, and no node   *)
(* is produced.                                                            *)
(***************************************************************************)
\* the log's j-th call is a call of step fn for a player whose active pokemon is unset
CalledUnset(j, fn) ==
    /\ log[j].fn = fn
    /\ State_player(log[j].state, Player_values[log[j].mark]).active_pokemon_idx = None

FatalFor(j) ==
    /\ pc = "panic"
    /\ j = Len(log)
    /\ node.branches.kind = "Panic"
    /\ node.branches.player = Player_values[log[j].mark]

C14_MissingActiveFatal ==
    \A j \in 1..Len(log) :
        (CalledUnset(j, "choose_action_step") \/ CalledUnset(j, "pokemon_etb")) => FatalFor(j)

(***************************************************************************)
(* C18: shape of the game started by State::start.  After any number k of  *)
(* resolutions the driver holds a Decision, never a Pending or End node    *)
(* and never a panic: 'Choose your active pokemon' for Player1 at k = 0    *)
(* (the root) and for Player2 at k = 1, and 'Choose your action' from      *)
(* k = 2 on, for Player1 at every even k and for Player2 at every odd k.   *)
(***************************************************************************)
FromStart == Len(log) > 0 /\ log[1].fn = "start"

C18_GameShape ==
    FromStart =>
        LET k == Resolutions(log) IN
        /\ pc = "node"
        /\ node.branches.kind = "Decision"
        /\ node.branches.name =
               IF k < 2 THEN "Choose your active pokemon" ELSE "Choose your action"
        /\ node.branches.player = IF k % 2 = 0 THEN "Player1" ELSE "Player2"

\* the second turn's Decision of Player2, in a game of two non-empty teams
C18_Witness ==
    /\ FromStart
    /\ last.op = "resolve"
    /\ Resolutions(log) = 5
    /\ node.branches.kind = "Decision"
    /\ node.branches.player = "Player2"
    /\ Len(node.branches.choices) = 3

(***************************************************************************)
(* C19: the active pokemon is set before it is needed.  In a game started  *)
(* by State::start, resolving choice i (counted from 0) of a player's      *)
(* 'Choose your active pokemon' Decision leaves that player's              *)
(* active_pokemon_idx at Some(i), an index of the player's team; every     *)
(* call of pokemon_etb or of the step of choose_actions for a player is    *)
(* made on a State in which that player's active_pokemon_idx is Some of a  *)
(* team index; and the run never panics.                                   *)
(***************************************************************************)
ValidIdx(ps) ==
    /\ ps.active_pokemon_idx # None
    /\ ps.active_pokemon_idx[1] \in 0..(Len(ps.team) - 1)

C19_ActiveSetBeforeNeeded ==
    FromStart =>
        /\ pc # "panic"
        /\ (last.op = "resolve"
              /\ last.pre.branches.name = "Choose your active pokemon") =>
               LET ps == State_player(node.state, last.pre.branches.player)
               IN /\ ps.active_pokemon_idx = Some(last.idx - 1)
                  /\ ValidIdx(ps)
        /\ \A j \in 1..Len(log) :
               log[j].fn \in {"pokemon_etb", "choose_action_step"} =>
                   ValidIdx(State_player(log[j].state, Player_values[log[j].mark]))

\* Player2 picks the third of a team of three: both pokemon_etb calls and the first
\* step of choose_actions have run
C19_Witness ==
    /\ FromStart
    /\ last.op = "resolve"
    /\ last.pre.branches.name = "Choose your active pokemon"
    /\ last.pre.branches.player = "Player2"
    /\ last.idx = 3
    /\ log[Len(log)].fn = "choose_action_step"

(***************************************************************************)
(* C20: resolving a Decision changes only the deciding player's chosen     *)
(* field.  The State of the node the driver holds after resolving choice i *)
(* of player p's 'Choose your active pokemon' is the Decision's State with *)
(* p's active_pokemon_idx set to Some(i); after resolving a choice of p's  *)
(* 'Choose your action' it is the Decision's State with p's turn_action    *)
(* set to Some of the choice's Action.  Nothing else differs: the other    *)
(* player's PlayerState, both teams and p's other fields are as they were. *)
(***************************************************************************)
RECURSIVE PayloadOf(_)

\* the payload the continuation of a choice was built with, under what then wrapped on it
PayloadOf(c) == IF c.k = "then_closure" THEN PayloadOf(c.cont) ELSE c.c

C20_OnlyChosenFieldChanges ==
    (pc = "node" /\ last.op = "resolve") =>
        LET p == last.pre.branches.player
            s == last.pre.state
            ps == State_player(s, p)
            chosen == PayloadOf(Entries(last.pre)[last.idx].continuation)
        IN /\ last.pre.branches.name = "Choose your active pokemon" =>
                 /\ chosen = last.idx - 1
                 /\ node.state =
                        State_player_mut(s, p, [ps EXCEPT !.active_pokemon_idx = Some(chosen)])
           /\ last.pre.branches.name = "Choose your action" =>
                 /\ chosen.kind \in {"UsePokeMove", "SwitchPokemon"}
                 /\ node.state =
                        State_player_mut(s, p, [ps EXCEPT !.turn_action = Some(chosen)])

\* Player2 switches in the second turn, both players having acted in the first
C20_Witness ==
    /\ FromStart
    /\ pc = "node"
    /\ last.op = "resolve"
    /\ last.pre.branches.name = "Choose your action"
    /\ last.pre.branches.player = "Player2"
    /\ last.pre.state.player_2.turn_action # None
    /\ node.state.player_2.turn_action = Some(SwitchPokemon(0))
    /\ node.state.player_2.turn_action # last.pre.state.player_2.turn_action

(***************************************************************************)
(* C21: contents of the action menu.  Every 'Choose your action' Decision  *)
(* a driver holds, for its player p with active index a and m moves of     *)
(* the active pokemon, lists UsePokeMove(0), ..., UsePokeMove(m - 1) as    *)
(* its first m choices, labelled with the moves in move order, and then    *)
(* SwitchPokemon(j) for exactly the team indices j other than a whose      *)
(* member has current_hp > 0, in rising order of j, each labelled with     *)
(* that member; no switch to a or to a member of zero hp is listed.        *)
(***************************************************************************)
\* the payloads of the choices of a Decision, in the order listed
MenuPayloads(n) ==
    [i \in 1..Len(n.branches.choices) |-> PayloadOf(n.branches.choices[i].continuation)]

\* the team indices a player may switch to
Switchable(ps) ==
    {j \in 0..(Len(ps.team) - 1) :
        j # ps.active_pokemon_idx[1] /\ current_hp(ps.team[j + 1]) > 0}

C21_ActionMenu ==
    (pc = "node" /\ node.branches.kind = "Decision"
       /\ node.branches.name = "Choose your action") =>
        LET ps == State_player(node.state, node.branches.player)
            mv == moves(ps.team[ps.active_pokemon_idx[1] + 1])
            m == Len(mv)
            menu == MenuPayloads(node)
            labels == [i \in 1..Len(menu) |-> node.branches.choices[i].name]
        IN /\ Len(menu) = m + Cardinality(Switchable(ps))
           /\ \A i \in 1..m :
                 /\ menu[i] = UsePokeMove(i - 1)
                 /\ labels[i] = move_to_string(mv[i])
           /\ \A i \in (m + 1)..Len(menu) :
                 /\ menu[i].kind = "SwitchPokemon"
                 /\ menu[i].i \in Switchable(ps)
                 /\ labels[i] = to_string(ps.team[menu[i].i + 1])
           /\ \A i, j \in (m + 1)..Len(menu) : i < j => menu[i].i < menu[j].i

\* Player2's menu with team <<1, 2, 0>> and the first member active: one move, then
\* a switch to the third member, the fainted second member left out
C21_Witness ==
    /\ FromStart
    /\ pc = "node"
    /\ node.branches.name = "Choose your action"
    /\ node.branches.player = "Player2"
    /\ node.state.player_2.team = <<1, 2, 0>>
    /\ node.state.player_2.active_pokemon_idx = Some(0)
    /\ MenuPayloads(node) = <<UsePokeMove(0), SwitchPokemon(2)>>

(***************************************************************************)
(* C22: construction and resolution terminate.  In a game started by       *)
(* State::start, the construction and every single resolution make a       *)
(* fixed, finite run of step calls and hand back the next Decision, with   *)
(* main_turn called at most once:                                          *)
(*   - start calls choose_starting_pokemon and Player1's step, and neither *)
(*     initial_etb nor main_turn, which wait behind the Decisions;         *)
(*   - resolving Player1's Decision calls its callback and Player2's step; *)
(*   - resolving Player2's 'Choose your active pokemon' calls the          *)
(*     callback, initial_etb with both pokemon_etb, then main_turn once,   *)
(*     choose_actions and Player1's step;                                  *)
(*   - resolving Player2's 'Choose your action' calls the callback,        *)
(*     execute_actions, then main_turn once, choose_actions and Player1's  *)
(*     step; the main_turn composed behind it is not called.               *)
(***************************************************************************)
\* the names of the calls the last operation added to the log
AddedCalls == [j \in 1..(Len(log) - Len(last.plog)) |-> log[Len(last.plog) + j].fn]

Count(s, x) == Cardinality({j \in 1..Len(s) : s[j] = x})

\* the continuation of a choice ends in a main_turn that has not run
RECURSIVE DefersMainTurn(_)

DefersMainTurn(c) ==
    c.k = "then_closure" /\ (c.f = Fn("main_turn") \/ DefersMainTurn(c.cont))

C22_Terminates ==
    (FromStart /\ last.op \in {"start", "resolve"}) =>
        /\ pc = "node"
        /\ SubSeq(log, 1, Len(last.plog)) = last.plog
        /\ Count(AddedCalls, "main_turn") <= 1
        /\ \A i \in 1..Len(Entries(node)) : DefersMainTurn(Entries(node)[i].continuation)
        /\ last.op = "start" =>
               AddedCalls = <<"start", "choose_starting_pokemon", "choose_active_step">>
        /\ (last.op = "resolve" /\ last.pre.branches.player = "Player1") =>
               AddedCalls \in {<<"set_active", "choose_active_step">>,
                               <<"set_action", "choose_action_step">>}
        /\ (last.op = "resolve" /\ last.pre.branches.player = "Player2") =>
               AddedCalls \in
                   {<<"set_active", "initial_etb", "pokemon_etb", "pokemon_etb",
                      "main_turn", "choose_actions", "choose_action_step">>,
                    <<"set_action", "execute_actions",
                      "main_turn", "choose_actions", "choose_action_step">>}

\* the second turn opens: Player2's action of the first turn is resolved, main_turn
\* has run a second time in the game and once in this resolution
C22_Witness ==
    /\ FromStart
    /\ last.op = "resolve"
    /\ last.pre.branches.name = "Choose your action"
    /\ last.pre.branches.player = "Player2"
    /\ Count(AddedCalls, "main_turn") = 1
    /\ Count([j \in 1..Len(log) |-> log[j].fn], "main_turn") = 2
    /\ Len(Entries(node)) >= 1

====
